---------------------------- MODULE Spec2Model ----------------------------
(***************************************************************************)
(* A model of the polarized-target simulation (ptgroup/old-simulation):    *)
(* the run-script reader (script.c), the command loops of old_sim.c and    *)
(* sim.c, the run_until pacing loop, and the controller protocol           *)
(* (process_command).                                                      *)
(*                                                                         *)
(* Characters are one-character strings; a C string buffer is a sequence   *)
(* of characters in which NUL marks the end of the visible string.  A row  *)
(* of the static, zero-initialised array `commands` is kept without its    *)
(* trailing NULs.                                                          *)
(***************************************************************************)
EXTENDS Integers, Sequences, FiniteSets, TLC

\* ------------------------------------------------------------------ bounds
\* Longest script file of the reader specification SpecLex.
MaxFileLen == 5

\* ------------------------------------------------------- program constants
\* script.c:8
MAX_CMDS == 10
\* script.c:9
CMD_BUFLEN == 40

NUL == "NUL"
EOF == "EOF"
NL == "\n"
CR == "\r"
TAB == "\t"
SP == " "
HASH == "#"

\* ---------------------------------------------------------------- strings
RECURSIVE StripNul(_)
\* A row of `commands` without the zero bytes at its end.
StripNul(row) ==
    IF row = << >> THEN row
    ELSE IF row[Len(row)] = NUL THEN StripNul(SubSeq(row, 1, Len(row) - 1))
    ELSE row

RECURSIVE PadTo(_, _)
PadTo(row, n) == IF Len(row) >= n THEN row ELSE PadTo(Append(row, NUL), n)

\* row[p] = c for a zero-based position p of a CMD_BUFLEN-byte row.
PutChar(row, p, c) ==
    LET wide == PadTo(row, p + 1)
    IN  StripNul([wide EXCEPT ![p + 1] = c])

RECURSIVE CStr(_)
\* The C string held in a row: the characters before the first NUL.
CStr(row) ==
    IF row = << >> \/ Head(row) = NUL THEN << >>
    ELSE <<Head(row)>> \o CStr(Tail(row))

\* commands[r][p] = c; a row index outside the array is recorded in oob.
PutCmd(buf, r, p, c) ==
    IF r \in DOMAIN buf THEN [buf EXCEPT ![r] = PutChar(buf[r], p, c)] ELSE buf

\* ----------------------------------------------------------- script reader
\* The state of one script_readline call: the locals cmd, pos and read, the
\* array commands (buf), the file and the read offset in it (the FILE*), and
\* where the call stands: "scan" in the main loop, "skip" inside the
\* do-while that skips a comment line, "ret" once it has returned, "ub" once
\* it has written outside the array, after which nothing is known of the
\* program.  start is history: the read offset at which the call began.
LexEntry(buf, file, fpos) ==
    [cmd |-> 0, pos |-> 0, read |-> 0, buf |-> buf, file |-> file,
     fpos |-> fpos, start |-> fpos, st |-> "scan", oob |-> FALSE]

\* fgetc(script_file): the next character, EOF at the end of the file
\* (and at every later call).
Fgetc(lx) == IF lx.fpos < Len(lx.file) THEN lx.file[lx.fpos + 1] ELSE EOF
Advance(lx) == IF lx.fpos < Len(lx.file) THEN lx.fpos + 1 ELSE lx.fpos

\* The end of a token: commands[cmd][pos] = 0.
Terminate(lx) ==
    [lx EXCEPT !.buf = PutCmd(lx.buf, lx.cmd, lx.pos, NUL),
               !.oob = lx.oob \/ lx.cmd >= MAX_CMDS]

\* One iteration of the while (true) loop of script_readline, or one
\* iteration of the comment-skipping do-while: exactly one fgetc.
LexIteration(lx) ==
    LET c == Fgetc(lx)
        l == [lx EXCEPT !.fpos = Advance(lx)]
        atStart == l.cmd = 0 /\ l.pos = 0
    IN  IF l.st = "skip"
        THEN IF c = NL THEN [l EXCEPT !.st = "scan"] ELSE l
        ELSE IF c = EOF
        THEN [Terminate(l) EXCEPT !.st = "ret"]
        ELSE IF c = NL \/ c = CR
        THEN IF atStart THEN l ELSE [Terminate(l) EXCEPT !.st = "ret"]
        ELSE IF c = HASH
        THEN IF atStart THEN [l EXCEPT !.st = "skip"]
             ELSE [Terminate(l) EXCEPT !.st = "ret"]
        ELSE IF c = SP \/ c = TAB
        THEN IF atStart THEN l
             ELSE [Terminate(l) EXCEPT !.cmd = l.cmd + 1, !.pos = 0]
        ELSE IF l.pos < CMD_BUFLEN - 1
        THEN [l EXCEPT !.buf = PutCmd(l.buf, l.cmd, l.pos, c),
                       !.oob = l.oob \/ l.cmd >= MAX_CMDS,
                       !.pos = l.pos + 1, !.read = l.read + 1]
        ELSE IF l.cmd < MAX_CMDS - 1
        THEN [Terminate(l) EXCEPT !.cmd = l.cmd + 1, !.pos = 0]
        ELSE [l EXCEPT !.st = "ret"]

\* The iteration, and the end of what is known when it wrote to
\* commands[cmd] with cmd >= MAX_CMDS.
LexStep(lx) ==
    LET n == LexIteration(lx) IN IF n.oob THEN [n EXCEPT !.st = "ub"] ELSE n

RECURSIVE LexRun(_)
\* script_readline run to its return; "hang" when an iteration leaves the
\* whole state as it was, so that the loop never ends.
LexRun(lx) ==
    IF lx.st \in {"ret", "ub"} THEN lx
    ELSE LET n == LexStep(lx)
         IN  IF n.fpos = lx.fpos /\ n = lx THEN [lx EXCEPT !.st = "hang"]
             ELSE LexRun(n)

\* script_cmdequ and script_getarg.
script_cmdequ(buf, command) == CStr(buf[0]) = command
script_getarg(buf, n) == CStr(buf[n + 1])

\* ------------------------------------------------------------ script text
W_serial == <<"s", "e", "r", "i", "a", "l">>
W_on == <<"o", "n">>
W_off == <<"o", "f", "f">>
W_init == <<"i", "n", "i", "t">>
W_done == <<"d", "o", "n", "e">>
W_mfld == <<"m", "f", "l", "d">>
W_sdst == <<"s", "d", "s", "t">>
W_temp == <<"t", "e", "m", "p">>
W_freq == <<"f", "r", "e", "q">>
W_time == <<"t", "i", "m", "e">>
W_beam == <<"b", "e", "a", "m">>
W_trip == <<"t", "r", "i", "p">>
W_annl == <<"a", "n", "n", "l">>
W_rand == <<"r", "a", "n", "d">>
W_fllw == <<"f", "l", "l", "w">>
W_bogus == <<"x", "y">>

RECURSIVE Join(_)
\* The tokens of a line separated by single blanks.
Join(toks) ==
    IF Len(toks) = 1 THEN toks[1]
    ELSE toks[1] \o <<SP>> \o Join(Tail(toks))

\* A script line: its tokens and the newline that ends it.
Line(toks) == Join(toks) \o <<NL>>

\* ------------------------------------------------------- sscanf and atof
Digits == <<"0", "1", "2", "3", "4", "5", "6", "7", "8", "9">>
IsDigit(c) == \E i \in 1 .. 10 : Digits[i] = c
DigitVal(c) == (CHOOSE i \in 1 .. 10 : Digits[i] = c) - 1

RECURSIVE DigitRun(_, _, _)
\* The value and length of the longest run of digits at the head of s.
DigitRun(s, acc, n) ==
    IF s # << >> /\ IsDigit(Head(s))
    THEN DigitRun(Tail(s), 10 * acc + DigitVal(Head(s)), n + 1)
    ELSE [val |-> acc, len |-> n]

\* sscanf(s, "%<width>lf", &x) on the numerals of the model (an optional
\* sign and digits): ok is FALSE when no conversion happens, and x is then
\* left as it was.
ParseLf(s, width) ==
    LET t == SubSeq(s, 1, IF Len(s) < width THEN Len(s) ELSE width)
        signed == t # << >> /\ Head(t) \in {"+", "-"}
        body == IF signed THEN Tail(t) ELSE t
        d == DigitRun(body, 0, 0)
    IN  [ok |-> d.len > 0,
         val |-> IF signed /\ Head(t) = "-" THEN 0 - d.val ELSE d.val]

\* atof(s): 0 when s holds no number.
Atof(s) == LET p == ParseLf(s, CMD_BUFLEN) IN IF p.ok THEN p.val ELSE 0

VARIABLES
    variant,      \* "old": old_sim.c, "new": sim.c
    serial_on,    \* the global serial_on
    pc,           \* where the program stands
    lex,          \* script.c: the array commands, the file, the last call
    nlines,       \* script lines read so far
    in_init,      \* main's in_init
    did_init,     \* main's did_init
    exit_status,  \* -1 while running, else main's return value
    diag,         \* the diagnostic printed by the last executed command
    sim,          \* the simulation globals
    run,          \* the run_until call in progress, and what follows it
    out,          \* the output file: rows written so far and the last row
    now,          \* the wall clock, in seconds, as time() reports it
    rxq,          \* bytes sent by the controller and not yet read
    box,          \* the controller: bytes sent, bytes left of its message
    proto,        \* process_command: control byte, field bytes, bytes sent
    hist,         \* history: commands executed so far, the last opcode, the
                  \* simulation globals before the last command
    stats,        \* history: counts of advances, anneal rows, 0x88 messages
    codec         \* serial.c: the host's byte order, and a value on its way
                  \* through serial_tx_* and serial_rx_*

vars == <<variant, serial_on, pc, lex, nlines, in_init, did_init, exit_status,
          diag, sim, run, out, now, rxq, box, proto, hist, stats, codec>>

EmptyBuf == [r \in 0 .. MAX_CMDS - 1 |-> << >>]

\* ------------------------------------------------------------------ units
\* Simulated and wall-clock time are whole seconds.  Frequencies are in MHz
\* (the unit of the wire protocol).  Dose is counted in units of
\* MAX_DOSE_RATE * DELTA_T (0.0002 Pe/cm^2), dose rates in units of
\* MAX_DOSE_RATE.  steady_state and max_steady_state are in units of 1e-4,
\* max_pol_rate in units of 1e-6.  A run_until target is kept doubled
\* (new_time2 = 2 * new_time), so that the half of an odd trip time is a whole
\* number.  A polarization is kept as the number of the update() that
\* computed it, 0 for the literal 0.0: equal numbers are equal values.  The
\* A parameter of sim.c is kept as the frequency it was computed for.

\* old_sim.c:97, sim.c:92
DELTA_T == 1
\* old_sim.c:98, sim.c:93
DELAY == 1
\* old_sim.c:80 (the unit of dose rate)
MAX_DOSE_RATE == 1
\* old_sim.c:69 and 73, in 1e-4
INIT_STEADY_STATE == 9500
\* old_sim.c:70, in 1e-6
INIT_MAX_POL_RATE == 1314
\* old_sim.c:91, sim.c:87, in MHz
INIT_FREQ == 140145
\* old_sim.c:92, sim.c:88
INIT_FIELD == 5
\* old_sim.c:93, sim.c:89
INIT_TEMP == 1
\* old_sim.c:75
INIT_DIRECTION == 99
\* 1.0 in the unit of steady_state
ONE == 10000
\* CDOSE_THRESHOLD[1] and [2] (old_sim.c:82) in dose units: 0.3 and 1.2
CDOSE_THRESHOLD_1 == 1500
CDOSE_THRESHOLD_2 == 6000

\* The globals of old_sim.c:64-102 (sim.c:82-132 has a subset of them).
SimInit(v) ==
    [sim_time |-> 0, freq |-> INIT_FREQ, field |-> INIT_FIELD,
     temp |-> INIT_TEMP, dose |-> 0, dose_rate |-> 0, last_anneal_dose |-> 0,
     steady_state |-> INIT_STEADY_STATE,
     max_steady_state |-> INIT_STEADY_STATE, old_steady_state |-> 0,
     max_pol_rate |-> INIT_MAX_POL_RATE, randomness_on |-> TRUE,
     follow_freq |-> FALSE, tripping |-> FALSE,
     direction |-> IF v = "old" THEN INIT_DIRECTION ELSE 0, pol_rate |-> 0,
     pol |-> 0, n_anneals |-> 0, a_freq |-> INIT_FREQ]

\* ---------------------------------------------------------------- physics
\* exp(-0.4471 * (temp - 1)) in units of 1e-4, for whole temperatures.
ExpTemp(temp) ==
    CASE temp <= 0 -> 15638
      [] temp = 1 -> 10000
      [] temp = 2 -> 6395
      [] temp = 3 -> 4089
      [] OTHER -> 2615

\* reset_steady_state
reset_steady_state(s) ==
    LET v == (s.max_steady_state * ExpTemp(s.temp)) \div ONE
    IN  [s EXCEPT !.steady_state = IF v > ONE THEN ONE ELSE v]

\* The steady state lost over one DELTA_T of beam at rate dose_rate, by
\* update_steady_state: steady_state * (1 - exp(-delta_dose / crit_dose)),
\* to first order, with crit_dose 1.0, 4.1 or 30.
SteadyStateLoss(s) ==
    LET since == s.dose - s.last_anneal_dose
        crit10 == IF since > CDOSE_THRESHOLD_2 THEN 300
                  ELSE IF since > CDOSE_THRESHOLD_1 THEN 41 ELSE 10
    IN  (s.steady_state * s.dose_rate) \div (500 * crit10)

\* A variant of update_pol without `dose += dose_rate * delta_t`.
update_pol_DoseKept(s) ==
    [s EXCEPT !.steady_state = s.steady_state - SteadyStateLoss(s),
              !.pol = s.pol + 1]

\* The N_ITER calls update_pol(DELTA_T / N_ITER) of one update(): the decay of
\* the steady state, the new polarization and the dose deposited.
update_pol(s) ==
    [s EXCEPT !.steady_state = s.steady_state - SteadyStateLoss(s),
              !.pol = s.pol + 1,
              !.dose = s.dose + s.dose_rate * DELTA_T]

\* update_pol of sim.c: the closed form, from a_param and the frequency.
update_pol_new(s) == [s EXCEPT !.pol = s.pol + 1]

\* set_freq of sim.c: the frequency, then update_a_param.
set_freq(s, frequency) == [s EXCEPT !.freq = frequency, !.a_freq = frequency]

\* beam_on(rate) and beam_off()
beam_on(s, rate) == [s EXCEPT !.dose_rate = rate]
beam_off(s) == [s EXCEPT !.dose_rate = 0]

\* ------------------------------------------------------------ output file
\* One row of the output file, as output_data prints the globals.
Row(s) ==
    [time |-> s.sim_time, freq |-> s.freq, pol |-> s.pol, dose |-> s.dose,
     pol_rate |-> s.pol_rate, direction |-> s.direction]

NoRow == [time |-> -1]

\* output_data: one more row, holding the current globals.
output_data(o, s) == [n |-> o.n + 1, last |-> Row(s)]

\* A variant of update() that writes its row with the serial link too.
UpdateWritesRow_Always(serial) == TRUE
\* A variant of update() that never writes a row.
UpdateWritesRow_Never(serial) == FALSE

\* if (!serial_on) output_data();  in update() (old_sim.c:526)
UpdateWritesRow(serial) == ~serial
\* if (!serial_on) { pol_rate = 0; output_data(); }  in anneal (old_sim.c:601)
AnnealWritesRow(serial) == ~serial

\* update() of old_sim.c, update_sim() of sim.c: one DELTA_T of simulated
\* time.
update(v, s) ==
    LET t == [s EXCEPT !.sim_time = s.sim_time + DELTA_T]
    IN  IF v = "old" THEN update_pol(t) ELSE update_pol_new(t)

\* anneal(annl_time, temp): with pol held at 0 the simulated time passes in
\* steps of DELTA_T, the batch mode writing a row (with pol_rate 0) before
\* each step; then pol is put back.
\* A variant of anneal that sets sim_time to time_lim instead of looping.
AnnealSteps_Jump(s, annl_time) == annl_time

AnnealSteps(s, annl_time) == IF annl_time > 0 THEN annl_time ELSE 0

\* A variant of anneal without `pol = old_pol`.
anneal_sim_PolHeld(s, annl_time, serial) ==
    LET n == AnnealSteps(s, annl_time)
        t == [s EXCEPT !.pol = 0,
                       !.sim_time = s.sim_time + n * DELTA_T,
                       !.pol_rate = IF n > 0 /\ AnnealWritesRow(serial)
                                    THEN 0 ELSE s.pol_rate]
    IN  reset_steady_state([t EXCEPT !.last_anneal_dose = t.dose])

anneal_sim(s, annl_time, serial) ==
    LET n == AnnealSteps(s, annl_time)
        old_pol == s.pol
        t == [s EXCEPT !.pol = 0,
                       !.sim_time = s.sim_time + n * DELTA_T,
                       !.pol_rate = IF n > 0 /\ AnnealWritesRow(serial)
                                    THEN 0 ELSE s.pol_rate]
    IN  reset_steady_state([t EXCEPT !.pol = old_pol,
                                     !.last_anneal_dose = t.dose])

anneal_out(o, s, annl_time, serial) ==
    LET n == AnnealSteps(s, annl_time)
    IN  IF n > 0 /\ AnnealWritesRow(serial)
        THEN [n |-> o.n + n,
              last |-> Row([s EXCEPT !.sim_time = s.sim_time + (n - 1) * DELTA_T,
                                     !.pol = 0, !.pol_rate = 0])]
        ELSE o

\* ------------------------------------------------------------ run_until
\* The entry of run_until(new_time): time(&old_time).  cont is what the
\* caller does when the call returns, in_time the caller's local in_time;
\* entry_time and ref_wall are history: the simulated time at the entry, and
\* the wall-clock time of the entry or of the last advance of this call.
RunEntry(target2, cont, in_time, s) ==
    [new_time2 |-> target2, old_time |-> now, curr_time |-> now,
     cont |-> cont, in_time |-> in_time,
     entry_time |-> s.sim_time, ref_wall |-> now]

NoRun ==
    [new_time2 |-> 0, old_time |-> 0, curr_time |-> 0, cont |-> "none",
     in_time |-> 0, entry_time |-> 0, ref_wall |-> 0]

\* The loop condition: while (sim_time < new_time) in old_sim.c:560,
\* while (sim_time <= until) in sim.c:242.
LoopCond(v, sim_time, target2) ==
    IF v = "old" THEN 2 * sim_time < target2 ELSE 2 * sim_time <= target2

\* ---------------------------------------------------------- command loop
NoDiag == [kind |-> "none", tok |-> << >>]
\* printf("Invalid command: %s\n", script_getarg(-1))
InvalidDiag == [kind |-> "invalid", tok |-> script_getarg(lex.buf, -1)]
\* puts("ERROR: Cannot have more than one initializer block")
FatalDiag == [kind |-> "more_than_one_init", tok |-> << >>]

Op == CStr(lex.buf[0])
Arg(n) == script_getarg(lex.buf, n)

\* A variant of main in which a second initializer block is not fatal.
InitFatal_Never(did) == FALSE
\* A variant of main in which mfld is accepted outside the initializer block.
OutsideInit_NotMfld(op, inn) == IF op = W_mfld THEN FALSE ELSE ~inn
\* A variant of main in which init is accepted inside an initializer block.
InsideInit_TimeOnly(op, inn) == IF op = W_time THEN inn ELSE FALSE

\* if (did_init) { ...; return 1; }  (old_sim.c:211)
InitFatal(did) == did
\* if (!in_init) goto INVALID_COMMAND;  in done, mfld, sdst, temp and rand
OutsideInit(op, inn) == ~inn
\* if (in_init) goto INVALID_COMMAND;  in init (old_sim.c:216) and time
\* (old_sim.c:258); trip has no such test.
InsideInit(op, inn) == IF op \in {W_init, W_time} THEN inn ELSE FALSE

\* What an uninitialised double may hold.
MaxGarbage == 1
Garbage == 0 .. MaxGarbage

\* The value sscanf leaves in a local that was not initialised.
Scanned(s, width) ==
    LET p == ParseLf(s, width) IN IF p.ok THEN {p.val} ELSE Garbage

\* The value sscanf leaves in a variable that held old.
ScanInto(s, old) ==
    LET p == ParseLf(s, CMD_BUFLEN) IN IF p.ok THEN p.val ELSE old

Quiet == diag' = NoDiag /\ pc' = "next"

CmdInvalid ==
    /\ diag' = InvalidDiag
    /\ pc' = "next"
    /\ UNCHANGED <<in_init, did_init, exit_status, sim, run, out, stats>>

CmdAbort ==
    /\ diag' = FatalDiag
    /\ pc' = "abort"
    /\ exit_status' = 1
    /\ UNCHANGED <<in_init, did_init, sim, run, out, stats>>

CmdInit ==
    IF InitFatal(did_init) THEN CmdAbort
    ELSE IF InsideInit(W_init, in_init) THEN CmdInvalid
    ELSE /\ in_init' = TRUE
         /\ Quiet
         /\ UNCHANGED <<did_init, exit_status, sim, run, out, stats>>

CmdDone ==
    IF OutsideInit(W_done, in_init) THEN CmdInvalid
    ELSE /\ in_init' = FALSE
         /\ did_init' = TRUE
         /\ Quiet
         /\ UNCHANGED <<exit_status, sim, run, out, stats>>

\* A command that changes the simulation globals only.
SetSim(s) ==
    /\ sim' = s
    /\ Quiet
    /\ UNCHANGED <<in_init, did_init, exit_status, run, out, stats>>

CmdMfld ==
    IF OutsideInit(W_mfld, in_init) THEN CmdInvalid
    ELSE SetSim([sim EXCEPT !.field = ScanInto(Arg(0), sim.field)])

CmdSdst ==
    IF OutsideInit(W_sdst, in_init) THEN CmdInvalid
    ELSE LET m == IF ParseLf(Arg(0), CMD_BUFLEN).ok
                  THEN ParseLf(Arg(0), CMD_BUFLEN).val * ONE
                  ELSE sim.max_steady_state
         IN  SetSim([sim EXCEPT !.max_steady_state = m, !.steady_state = m])

CmdTemp ==
    IF OutsideInit(W_temp, in_init) THEN CmdInvalid
    ELSE SetSim(reset_steady_state(
                    [sim EXCEPT !.temp = ScanInto(Arg(0), sim.temp)]))

CmdFreqOld ==
    SetSim([sim EXCEPT !.freq =
                IF ParseLf(Arg(0), CMD_BUFLEN).ok
                THEN ParseLf(Arg(0), CMD_BUFLEN).val * 1000 ELSE sim.freq])

\* A command that calls run_until.
StartRun(target2, cont, in_time, s) ==
    /\ sim' = s
    /\ run' = RunEntry(target2, cont, in_time, s)
    /\ diag' = NoDiag
    /\ pc' = "run"
    /\ UNCHANGED <<in_init, did_init, exit_status, out, stats>>

CmdTimeOld(scanned) ==
    IF InsideInit(W_time, in_init) THEN CmdInvalid
    ELSE LET a == Arg(0)
             in_time == IF a # << >> /\ Head(a) = "+"
                        THEN scanned + sim.sim_time ELSE scanned
         IN  StartRun(2 * in_time, "time", in_time, sim)

CmdBeam ==
    IF Arg(0) = W_on THEN SetSim(beam_on(sim, MAX_DOSE_RATE))
    ELSE IF Arg(0) = W_off THEN SetSim(beam_off(sim))
    ELSE CmdInvalid

\* The first half of the trip command (old_sim.c:287-297).
TripBegin(s) ==
    LET b == beam_off(s)
        boosted == (b.steady_state * 12) \div 10
    IN  [b EXCEPT !.tripping = TRUE,
                  !.old_steady_state = b.steady_state,
                  !.steady_state = IF boosted > b.max_steady_state
                                   THEN b.max_steady_state ELSE boosted,
                  !.max_pol_rate = b.max_pol_rate * 10]

\* The middle of the trip command (old_sim.c:300-302).
TripMiddle(s) ==
    LET b == beam_on(s, MAX_DOSE_RATE)
    IN  [b EXCEPT !.steady_state = b.old_steady_state,
                  !.max_pol_rate = b.max_pol_rate \div 10]

CmdTrip(scanned) ==
    IF InsideInit(W_trip, in_init) THEN CmdInvalid
    ELSE StartRun(2 * sim.sim_time + scanned, "trip_mid", scanned,
                  TripBegin(sim))

CmdAnnl ==
    LET annl_time == Atof(Arg(0))
        n == AnnealSteps(sim, annl_time)
    IN  /\ sim' = anneal_sim(sim, annl_time, serial_on)
        /\ out' = anneal_out(out, sim, annl_time, serial_on)
        /\ stats' = [stats EXCEPT !.n_annl_rows =
                        @ + (IF AnnealWritesRow(serial_on) THEN n ELSE 0)]
        /\ Quiet
        /\ UNCHANGED <<in_init, did_init, exit_status, run>>

CmdRand ==
    IF OutsideInit(W_rand, in_init) THEN CmdInvalid
    ELSE IF Arg(0) = W_on THEN SetSim([sim EXCEPT !.randomness_on = TRUE])
    ELSE IF Arg(0) = W_off THEN SetSim([sim EXCEPT !.randomness_on = FALSE])
    ELSE CmdInvalid

CmdFllw ==
    IF serial_on THEN SetSim(sim)
    ELSE IF Arg(0) = W_on THEN SetSim([sim EXCEPT !.follow_freq = TRUE])
    ELSE IF Arg(0) = W_off THEN SetSim([sim EXCEPT !.follow_freq = FALSE])
    ELSE SetSim(sim)

\* The body of the do-while of old_sim.c:208-342.
BodyOld(scanned) ==
    CASE Op = W_init -> CmdInit
      [] Op = W_done -> CmdDone
      [] Op = W_mfld -> CmdMfld
      [] Op = W_sdst -> CmdSdst
      [] Op = W_temp -> CmdTemp
      [] Op = W_freq -> CmdFreqOld
      [] Op = W_time -> CmdTimeOld(scanned)
      [] Op = W_beam -> CmdBeam
      [] Op = W_trip -> CmdTrip(scanned)
      [] Op = W_annl -> CmdAnnl
      [] Op = W_rand -> CmdRand
      [] Op = W_fllw -> CmdFllw
      [] OTHER -> CmdInvalid

\* The body of the do-while of sim.c:204-217: freq and time, nothing else.
BodyNew(scanned) ==
    CASE Op = W_freq -> SetSim(set_freq(sim, scanned * 1000))
      [] Op = W_time -> StartRun(2 * scanned, "time", scanned, sim)
      [] OTHER -> SetSim(sim)

\* One pass through the body of the command loop.
ExecCommand ==
    /\ pc = "cmd"
    /\ \E scanned \in Scanned(Arg(0), IF variant = "old" THEN CMD_BUFLEN ELSE 6) :
           IF variant = "old" THEN BodyOld(scanned) ELSE BodyNew(scanned)
    /\ hist' = [nexec |-> hist.nexec + 1, last_op |-> Op, pre |-> sim]
    /\ UNCHANGED <<variant, codec, serial_on, lex, nlines, now, rxq, box, proto>>

\* ------------------------------------------------------- reading the script
\* What the next script_readline call can find in the file: one of the
\* lines of menu, or the end of the file.
ReadFrom(menu, limit) == (IF nlines < limit THEN menu ELSE {}) \cup {<< >>}

\* The call script_readline() on a file whose unread part is f.
ReadLineOf(f) == LexRun(LexEntry(lex.buf, f, 0))

\* old_sim.c:190-199, sim.c:184-195: the first line is read and, when it is a
\* serial line, obeyed.
Start(menu, limit) ==
    /\ pc = "start"
    /\ \E f \in ReadFrom(menu, limit) :
          LET r == ReadLineOf(f)
              a == script_getarg(r.buf, 0)
          IN  /\ lex' = r
              /\ nlines' = nlines + (IF f = << >> THEN 0 ELSE 1)
              /\ IF r.st = "hang"
                 THEN pc' = "hung" /\ UNCHANGED serial_on
                 ELSE IF script_cmdequ(r.buf, W_serial)
                 THEN /\ pc' = "start2"
                      /\ serial_on' = IF a = W_on THEN TRUE
                                      ELSE IF a = W_off THEN FALSE
                                      ELSE IF variant = "old" THEN serial_on
                                      ELSE FALSE
                 ELSE pc' = "cmd" /\ UNCHANGED serial_on
    /\ UNCHANGED <<variant, codec, in_init, did_init, exit_status, diag, sim, run,
                   out, now, rxq, box, proto, hist, stats>>

\* old_sim.c:201-206, sim.c:197-201: after a serial line the next line is
\* read, whatever it is, and the serial port is opened.
Start2(menu, limit) ==
    /\ pc = "start2"
    /\ \E f \in ReadFrom(menu, limit) :
          LET r == ReadLineOf(f)
          IN  /\ lex' = r
              /\ nlines' = nlines + (IF f = << >> THEN 0 ELSE 1)
              /\ pc' = IF r.st = "hang" THEN "hung" ELSE "cmd"
    /\ UNCHANGED <<variant, codec, serial_on, in_init, did_init, exit_status, diag,
                   sim, run, out, now, rxq, box, proto, hist, stats>>

\* while ((read = script_readline())): the loop goes on with the line read,
\* or ends at the end of the file and main returns 0.
ReadLine(menu, limit) ==
    /\ pc = "next"
    /\ \E f \in ReadFrom(menu, limit) :
          LET r == ReadLineOf(f)
          IN  /\ lex' = r
              /\ nlines' = nlines + (IF f = << >> THEN 0 ELSE 1)
              /\ IF r.st = "hang" THEN pc' = "hung" /\ UNCHANGED exit_status
                 ELSE IF r.read = 0 THEN pc' = "done" /\ exit_status' = 0
                 ELSE pc' = "cmd" /\ UNCHANGED exit_status
    /\ UNCHANGED <<variant, codec, serial_on, in_init, did_init, diag, sim, run, out,
                   now, rxq, box, proto, hist, stats>>

\* --------------------------------------------------------- the wire codec
\* A byte order of the host: "little" (the PCs the program is built for) has
\* the least significant byte of a value at its lowest address, "big" the
\* most significant.  A float is kept as its bit pattern, written as four
\* bytes from the most significant (sign and exponent) to the least.
Hosts == {"little", "big"}

Reversed(m) == <<m[4], m[3], m[2], m[1]>>

\* serial_rx_int32 with uint8_ts[4] = {b1, b2, b3, b4}.
serial_rx_int32_InOrder(host, b) ==
    LET m == IF host = "little" THEN b ELSE Reversed(b)
        top == IF m[4] >= 128 THEN m[4] - 256 ELSE m[4]
    IN  ((top * 256 + m[3]) * 256 + m[2]) * 256 + m[1]

\* *(int32_t*)m: the int32_t whose four bytes in memory, lowest address
\* first, are m.
Int32OfMem(host, m) ==
    LET l == IF host = "little" THEN m ELSE Reversed(m)
        top == IF l[4] >= 128 THEN l[4] - 256 ELSE l[4]
    IN  ((top * 256 + l[3]) * 256 + l[2]) * 256 + l[1]

\* *(float*)m: the bits of the float whose four bytes in memory are m.
FloatOfMem(host, m) == IF host = "little" THEN Reversed(m) ELSE m

\* serial_rx_int32 and serial_rx_float on the bytes b in their order of
\* arrival: uint8_ts[4] = {b4, b3, b2, b1}.
serial_rx_int32(host, b) == Int32OfMem(host, <<b[4], b[3], b[2], b[1]>>)
serial_rx_float(host, b) == FloatOfMem(host, <<b[4], b[3], b[2], b[1]>>)

\* (uint8_t*)&value: the four bytes of the int32_t v in memory, lowest
\* address first.
MemOfInt32(host, v) ==
    LET u == IF v < 0 THEN v + 2147483647 + 1 ELSE v
        hi == (u \div 16777216) + (IF v < 0 THEN 128 ELSE 0)
        l == <<u % 256, (u \div 256) % 256, (u \div 65536) % 256, hi>>
    IN  IF host = "little" THEN l ELSE Reversed(l)

\* The four bytes in memory of the float with the bits f.
MemOfFloat(host, f) == IF host = "little" THEN Reversed(f) ELSE f

\* serial_tx_int32 and serial_tx_float: valueBytes[3] first, valueBytes[0]
\* last.
serial_tx_int32(host, v) ==
    LET m == MemOfInt32(host, v) IN <<m[4], m[3], m[2], m[1]>>
serial_tx_float(host, f) ==
    LET m == MemOfFloat(host, f) IN <<m[4], m[3], m[2], m[1]>>

\* No value is on its way; the host is a PC.
NoCodec ==
    [host |-> "little", kind |-> "none", xi |-> 0, xf |-> <<0, 0, 0, 0>>,
     wire |-> << >>, gi |-> 0, gf |-> <<0, 0, 0, 0>>, st |-> "idle"]

\* ------------------------------------------------------ process_command
\* control is the local of process_command, fld the bytes read so far of the
\* field that follows it, tx the bytes written in answer to it; n counts the
\* control bytes dispatched by the call of process_command in progress.
NoProto == [control |-> 0, fld |-> << >>, tx |-> << >>, n |-> 0]

\* The control bytes followed by a four-byte field.
ReadsField(c) == c \in {17, 136, 187}

\* The bytes serial_tx_float(pol) writes.  This model does not hold the
\* polarization: byte i of its float (0 the least significant) is written
\* -(i + 1), which no byte of the link equals.
PolBytes == <<-4, -3, -2, -1>>

\* A variant of sendConfirmation that writes 0xEF before 0xBE.
Answer_Swapped(c) ==
    CASE c = 51 -> <<239, 190>>
      [] c = 119 -> serial_tx_int32(codec.host, now)
      [] c = 255 -> PolBytes
      [] OTHER -> << >>

\* The bytes written in answer to control byte c.
Answer(c) ==
    CASE c = 51 -> <<190, 239>>
      [] c = 119 -> serial_tx_int32(codec.host, now)
      [] c = 255 -> PolBytes
      [] OTHER -> << >>

\* Whether the row of data is complete once the field of control byte c has
\* been read (old_sim.c:655-662, sim.c:364-371).
RowComplete(c) == c = 136

\* A variant of process_command that returns once it has handled a message.
AfterDispatch_Return == "gate"

\* After the switch the loop of process_command reads the next control byte
\* (old_sim.c:669, sim.c:350).
AfterDispatch == "drain"

\* rxByte / serial_rx_byte and the dispatch of the byte read: one pass
\* through the loop of process_command.
DrainPoll ==
    /\ pc = "drain"
    /\ LET control == IF rxq = << >> THEN 0 ELSE Head(rxq)
       IN  /\ rxq' = IF rxq = << >> THEN rxq ELSE Tail(rxq)
           /\ IF control = 0
              THEN pc' = "gate" /\ proto' = [proto EXCEPT !.n = 0]
              ELSE /\ proto' = [control |-> control, fld |-> << >>,
                                tx |-> Answer(control), n |-> proto.n + 1]
                   /\ pc' = IF ReadsField(control) THEN "field"
                            ELSE IF control = 238 /\ variant = "new"
                            THEN "string" ELSE AfterDispatch
    /\ UNCHANGED <<variant, codec, serial_on, lex, nlines, in_init, did_init,
                   exit_status, diag, sim, run, out, now, box, hist, stats>>

\* What readFreq, readDirection and readPolRate store.
StoreField(s, c, v) ==
    CASE c = 17 -> [s EXCEPT !.freq = v]
      [] c = 136 -> [s EXCEPT !.direction = v]
      [] OTHER -> [s EXCEPT !.pol_rate = v]

\* One serial_rx_byte_wait of a four-byte field, which waits for the byte;
\* with the fourth byte the value is stored and, after a direction, the row
\* is written.
FieldByte ==
    /\ pc = "field"
    /\ rxq # << >>
    /\ rxq' = Tail(rxq)
    /\ LET f == Append(proto.fld, Head(rxq))
       IN  IF Len(f) < 4
           THEN /\ proto' = [proto EXCEPT !.fld = f]
                /\ UNCHANGED <<pc, sim, out, stats>>
           ELSE LET s == StoreField(sim, proto.control,
                                     serial_rx_int32(codec.host, f))
                IN  /\ proto' = [proto EXCEPT !.fld = f]
                    /\ sim' = s
                    /\ out' = IF RowComplete(proto.control)
                              THEN output_data(out, s) ELSE out
                    /\ stats' = [stats EXCEPT !.n88 =
                                    @ + (IF proto.control = 136 THEN 1 ELSE 0)]
                    /\ pc' = AfterDispatch
    /\ UNCHANGED <<variant, codec, serial_on, lex, nlines, in_init, did_init,
                   exit_status, diag, run, now, box, hist>>

\* rx_string of sim.c: bytes are read and shown up to a zero byte.
StringByte ==
    /\ pc = "string"
    /\ rxq # << >>
    /\ rxq' = Tail(rxq)
    /\ pc' = IF Head(rxq) = 0 THEN AfterDispatch ELSE "string"
    /\ UNCHANGED <<variant, codec, serial_on, lex, nlines, in_init, did_init,
                   exit_status, diag, sim, run, out, now, box, proto, hist,
                   stats>>

\* ---------------------------------------------------- the loop of run_until
\* difftime(curr_time, old_time) >= DELAY
GateOpen(curr_time, old_time) == curr_time - old_time >= DELAY

\* The start of one iteration: the loop condition holds and time(&curr_time)
\* is sampled.  With the serial link, process_command follows; without it the
\* iteration is a row and an advance.
RunLoop ==
    /\ pc = "run"
    /\ LoopCond(variant, sim.sim_time, run.new_time2)
    /\ run' = [run EXCEPT !.curr_time = now]
    /\ IF serial_on
       THEN pc' = "drain" /\ UNCHANGED <<sim, out, stats>>
       ELSE /\ out' = IF variant = "new" \/ UpdateWritesRow(serial_on)
                      THEN output_data(out, sim) ELSE out
            /\ sim' = update(variant, sim)
            /\ stats' = [stats EXCEPT !.n_adv = @ + 1]
            /\ pc' = "run"
    /\ UNCHANGED <<variant, codec, serial_on, lex, nlines, in_init, did_init,
                   exit_status, diag, now, rxq, box, proto, hist>>

\* The end of an iteration with the serial link: the advance, when DELAY
\* seconds lie between the samples old_time and curr_time.
Gate ==
    /\ pc = "gate"
    /\ pc' = "run"
    /\ IF GateOpen(run.curr_time, run.old_time)
       THEN /\ out' = IF variant = "old" /\ UpdateWritesRow(serial_on)
                      THEN output_data(out, sim) ELSE out
            /\ sim' = update(variant, sim)
            /\ run' = [run EXCEPT !.old_time = run.curr_time,
                                  !.ref_wall = now]
            /\ stats' = [stats EXCEPT !.n_adv = @ + 1]
       ELSE UNCHANGED <<sim, run, out, stats>>
    /\ UNCHANGED <<variant, codec, serial_on, lex, nlines, in_init, did_init,
                   exit_status, diag, now, rxq, box, proto, hist>>

\* The loop condition fails: run_until returns, to the time command or into
\* the trip command (old_sim.c:300-305).
RunReturn ==
    /\ pc = "run"
    /\ ~LoopCond(variant, sim.sim_time, run.new_time2)
    /\ CASE run.cont = "trip_mid" ->
              LET s == TripMiddle(sim)
              IN  /\ sim' = s
                  /\ run' = RunEntry(2 * s.sim_time + run.in_time, "trip_end",
                                     run.in_time, s)
                  /\ pc' = "run"
         [] run.cont = "trip_end" ->
              /\ sim' = [sim EXCEPT !.tripping = FALSE]
              /\ pc' = "next"
              /\ UNCHANGED run
         [] OTHER ->
              /\ pc' = "next"
              /\ UNCHANGED <<sim, run>>
    /\ UNCHANGED <<variant, codec, serial_on, lex, nlines, in_init, did_init,
                   exit_status, diag, out, now, rxq, box, proto, hist, stats>>

\* ------------------------------------------------------------ environment
\* The wall clock advances, at any moment.  Only the seconds that pass during
\* a run_until call are modelled: the program reads the clock nowhere else.
Tick(limit) ==
    /\ now < limit
    /\ pc \in {"run", "drain", "field", "string", "gate"}
    /\ now' = now + 1
    /\ UNCHANGED <<variant, codec, serial_on, pc, lex, nlines, in_init, did_init,
                   exit_status, diag, sim, run, out, rxq, box, proto, hist,
                   stats>>

\* The controller sends one byte: a control byte, or the next of the four
\* bytes that follow a control byte with a field.  Bytes sent while no
\* run_until call is in progress wait in the port's buffer; they are modelled
\* as sent once the call has begun.
EnvSend(controls, payload, limit, room) ==
    /\ serial_on
    /\ pc \in {"run", "drain", "field", "string", "gate"}
    /\ box.sent < limit
    /\ Len(rxq) < room
    /\ IF box.left > 0
       THEN \E b \in payload :
               /\ rxq' = Append(rxq, b)
               /\ box' = [sent |-> box.sent + 1, left |-> box.left - 1]
       ELSE \E c \in controls :
               /\ rxq' = Append(rxq, c)
               /\ box' = [sent |-> box.sent + 1,
                          left |-> IF ReadsField(c) THEN 4 ELSE 0]
    /\ UNCHANGED <<variant, codec, serial_on, pc, lex, nlines, in_init, did_init,
                   exit_status, diag, sim, run, out, now, proto, hist, stats>>

\* ------------------------------------------------------------------ Init
\* The state at the entry of main: serial_on is true in old_sim.c:64 and
\* false in sim.c:82.  c is the host and what the codec is given.
InitProgram(v, file, c) ==
    /\ variant = v
    /\ serial_on = (v = "old")
    /\ lex = LexEntry(EmptyBuf, file, 0)
    /\ nlines = 0
    /\ in_init = FALSE
    /\ did_init = FALSE
    /\ exit_status = -1
    /\ diag = NoDiag
    /\ sim = SimInit(v)
    /\ run = NoRun
    /\ out = [n |-> 0, last |-> NoRow]
    /\ now = 0
    /\ rxq = << >>
    /\ box = [sent |-> 0, left |-> 0]
    /\ proto = NoProto
    /\ hist = [nexec |-> 0, last_op |-> << >>, pre |-> SimInit(v)]
    /\ stats = [n_adv |-> 0, n_annl_rows |-> 0, n88 |-> 0]
    /\ codec = c

\* ============================================ Spec: the command interpreter
\* Both programs, run without the serial link on every script of at most
\* MaxLines lines drawn from Menu (after the line `serial off`).
MaxLines == 3

Menu ==
    { Line(<<W_init>>), Line(<<W_done>>),
      Line(<<W_mfld, <<"2">> >>), Line(<<W_sdst, <<"1">> >>),
      Line(<<W_temp, <<"2">> >>), Line(<<W_rand, W_off>>),
      Line(<<W_freq, <<"1", "4", "1">> >>), Line(<<W_freq>>),
      Line(<<W_time, <<"2">> >>), Line(<<W_time, <<"+", "1">> >>),
      Line(<<W_time, <<"0">> >>),
      Line(<<W_beam, W_on>>), Line(<<W_beam, W_off>>),
      Line(<<W_trip, <<"2">> >>), Line(<<W_trip, <<"3">> >>),
      Line(<<W_annl, <<"2">>, <<"1">> >>),
      Line(<<W_fllw, W_on>>), Line(<<W_bogus>>) }

StartMenu == { Line(<<W_serial, W_off>>) }

Init ==
    /\ \E v \in {"old", "new"} : InitProgram(v, << >>, NoCodec)
    /\ pc = "start"

Next ==
    \/ Start(StartMenu, 1)
    \/ Start2(Menu, MaxLines + 1)
    \/ ReadLine(Menu, MaxLines + 1)
    \/ ExecCommand
    \/ RunLoop
    \/ RunReturn

Spec == Init /\ [][Next]_vars

\* ================================================ SpecRT: the pacing loop
\* Both programs with the wall clock running and, with the serial link on,
\* the controller sending bytes.
MaxLinesRT == 2
MaxClock == 2
MaxSent == 5
MaxQueue == 1

MenuRT ==
    { Line(<<W_time, <<"+", "2">> >>), Line(<<W_annl, <<"1">>, <<"1">> >>) }

StartMenuRT == { Line(<<W_serial, W_on>>), Line(<<W_serial, W_off>>) }

\* 0x00, 0x11, 0x33, 0x88 and a byte that is no control code; the bytes of
\* a field.
ControlsRT == {0, 17, 51, 136, 66}
PayloadRT == {0, 1}

NextRT ==
    \/ Start(StartMenuRT, 1)
    \/ Start2(MenuRT, MaxLinesRT + 1)
    \/ ReadLine(MenuRT, MaxLinesRT + 1)
    \/ ExecCommand
    \/ RunLoop
    \/ RunReturn
    \/ DrainPoll
    \/ FieldByte
    \/ Gate
    \/ Tick(MaxClock)
    \/ EnvSend(ControlsRT, PayloadRT, MaxSent, MaxQueue)

SpecRT == Init /\ [][NextRT]_vars

\* =================================================== SpecLex: the reader
\* Every script file of at most MaxFileLen characters over Alphabet, read by
\* the command loop `do { ... } while ((read = script_readline()))` one fgetc
\* at a time.  The commands themselves are not executed here.
Alphabet == {"a", SP, HASH, NL}

RECURSIVE Files(_)
Files(n) ==
    IF n = 0 THEN {<< >>}
    ELSE LET shorter == Files(n - 1)
         IN  shorter \cup {Append(f, c) : f \in {g \in shorter : Len(g) = n - 1},
                                          c \in Alphabet}

InitLex ==
    /\ \E f \in Files(MaxFileLen) : InitProgram("old", f, NoCodec)
    /\ pc = "reading"

LexFrame ==
    UNCHANGED <<variant, codec, serial_on, in_init, did_init, exit_status,
                diag, sim, run, out, now, rxq, box, proto, hist, stats>>

\* One fgetc of the call in progress.
LexChar ==
    /\ pc = "reading"
    /\ lex.st \in {"scan", "skip"}
    /\ lex' = LexStep(lex)
    /\ UNCHANGED <<pc, nlines>>
    /\ LexFrame

\* script_readline has returned a line: the loop body runs on it (nlines
\* counts these lines) and the while condition calls script_readline again.
LexNextLine ==
    /\ pc = "reading"
    /\ lex.st = "ret"
    /\ lex.read > 0
    /\ lex' = LexEntry(lex.buf, lex.file, lex.fpos)
    /\ nlines' = nlines + 1
    /\ UNCHANGED pc
    /\ LexFrame

\* script_readline has returned 0: the loop ends, the files are closed.
LexFinish ==
    /\ pc = "reading"
    /\ lex.st = "ret"
    /\ lex.read = 0
    /\ pc' = "finished"
    /\ UNCHANGED <<lex, nlines>>
    /\ LexFrame

NextLex == LexChar \/ LexNextLine \/ LexFinish

SpecLex == InitLex /\ [][NextLex]_vars

\* ============================================== SpecLexLong: long lines
\* The reader on the one-line files made of a first token of up to MaxToken
\* characters, up to MaxBlanks blanks, and then nothing, a second token, a
\* line end, or both.
MaxToken == 41
MaxBlanks == 11

RECURSIVE Rep(_, _)
Rep(c, n) == IF n = 0 THEN << >> ELSE <<c>> \o Rep(c, n - 1)

LongFiles ==
    { Rep("a", i) \o Rep(SP, j) \o t :
        i \in 1 .. MaxToken, j \in 0 .. MaxBlanks,
        t \in {<< >>, <<"a">>, <<NL>>, <<"a", NL>>} }

InitLexLong ==
    /\ \E f \in LongFiles : InitProgram("old", f, NoCodec)
    /\ pc = "reading"

SpecLexLong == InitLexLong /\ [][NextLex]_vars

\* ================================================== SpecCodec: the wire codec
\* serial_tx_int32 / serial_tx_float write a value to the link and
\* serial_rx_int32 / serial_rx_float read the four bytes back, on either
\* host, for the values whose bytes are drawn from ByteSamples.
ByteSamples == {0, 1, 127, 128, 255}

FloatSamples == ByteSamples \X ByteSamples \X ByteSamples \X ByteSamples
IntSamples == {Int32OfMem("big", f) : f \in FloatSamples}

InitCodec ==
    /\ \E h \in Hosts :
          \/ \E x \in IntSamples :
                InitProgram("new", << >>,
                            [NoCodec EXCEPT !.host = h, !.kind = "int", !.xi = x])
          \/ \E f \in FloatSamples :
                InitProgram("new", << >>,
                            [NoCodec EXCEPT !.host = h, !.kind = "float", !.xf = f])
    /\ pc = "codec"

CodecFrame ==
    UNCHANGED <<variant, serial_on, pc, lex, nlines, in_init, did_init,
                exit_status, diag, sim, run, out, now, rxq, box, proto, hist,
                stats>>

\* The value is written to the link.
CodecTx ==
    /\ pc = "codec"
    /\ codec.st = "idle"
    /\ codec' = [codec EXCEPT
                    !.wire = IF codec.kind = "int"
                             THEN serial_tx_int32(codec.host, codec.xi)
                             ELSE serial_tx_float(codec.host, codec.xf),
                    !.st = "sent"]
    /\ CodecFrame

\* The four bytes are read from the link, in the order they were written.
CodecRx ==
    /\ pc = "codec"
    /\ codec.st = "sent"
    /\ codec' = [codec EXCEPT
                    !.gi = IF codec.kind = "int"
                           THEN serial_rx_int32(codec.host, codec.wire)
                           ELSE codec.gi,
                    !.gf = IF codec.kind = "float"
                           THEN serial_rx_float(codec.host, codec.wire)
                           ELSE codec.gf,
                    !.st = "got"]
    /\ CodecFrame

NextCodec == CodecTx \/ CodecRx

SpecCodec == InitCodec /\ [][NextCodec]_vars

\* ================================================= SpecProto: the protocol
\* Both programs with the serial link on, running `time +1` while the
\* controller sends the control bytes of ControlsP.
MaxClockP == 1
MaxSentP == 5
MaxQueueP == 2

MenuP == { Line(<<W_time, <<"+", "1">> >>) }
StartMenuP == { Line(<<W_serial, W_on>>) }

\* 0x00, the seven control bytes of process_command, and a byte that is none
\* of them; the bytes of a field.
ControlsP == {0, 17, 51, 119, 136, 187, 238, 255, 66}
PayloadP == {0, 1}

NextProto ==
    \/ Start(StartMenuP, 1)
    \/ Start2(MenuP, 2)
    \/ ReadLine(MenuP, 2)
    \/ ExecCommand
    \/ RunLoop
    \/ RunReturn
    \/ DrainPoll
    \/ FieldByte
    \/ StringByte
    \/ Gate
    \/ Tick(MaxClockP)
    \/ EnvSend(ControlsP, PayloadP, MaxSentP, MaxQueueP)

SpecProto == Init /\ [][NextProto]_vars

\* ===================================================== SpecDose: the beam
\* Both programs in batch mode on the scripts of up to MaxLinesDose lines
\* (after the line `serial off`) that switch the beam, let time pass, trip
\* the beam and anneal.
MaxLinesDose == 4

MenuDose ==
    { Line(<<W_beam, W_on>>), Line(<<W_beam, W_off>>),
      Line(<<W_time, <<"+", "2">> >>),
      Line(<<W_trip, <<"2">> >>),
      Line(<<W_annl, <<"1">>, <<"1">> >>) }

NextDose ==
    \/ Start(StartMenu, 1)
    \/ Start2(MenuDose, MaxLinesDose + 1)
    \/ ReadLine(MenuDose, MaxLinesDose + 1)
    \/ ExecCommand
    \/ RunLoop
    \/ RunReturn

SpecDose == Init /\ [][NextDose]_vars

\* ============================================ SpecSteady: the steady state
\* Both programs in batch mode on the scripts of up to MaxLinesSteady lines
\* (after the line `serial off`) that set the steady state and the
\* temperature in an initializer block, trip the beam and anneal.
MaxLinesSteady == 3

MenuSteady ==
    { Line(<<W_init>>), Line(<<W_done>>),
      Line(<<W_temp, <<"0">> >>), Line(<<W_temp, <<"2">> >>),
      Line(<<W_sdst, <<"1">> >>),
      Line(<<W_trip, <<"2">> >>),
      Line(<<W_annl, <<"1">>, <<"1">> >>) }

NextSteady ==
    \/ Start(StartMenu, 1)
    \/ Start2(MenuSteady, MaxLinesSteady + 1)
    \/ ReadLine(MenuSteady, MaxLinesSteady + 1)
    \/ ExecCommand
    \/ RunLoop
    \/ RunReturn

SpecSteady == Init /\ [][NextSteady]_vars

\* ================================================ SpecTime: simulated time
\* Both programs, with and without the serial link, on the scripts of up to
\* MaxLinesT lines that ask for a time that may lie in the past, anneal for
\* no time or less, and trip the beam, while the controller reports
\* frequencies and directions.
MaxLinesT == 2
MaxClockT == 2
MaxSentT == 5
MaxQueueT == 1

MenuT ==
    { Line(<<W_time, <<"1">> >>), Line(<<W_time, <<"0">> >>),
      Line(<<W_annl, <<"0">>, <<"1">> >>),
      Line(<<W_annl, <<"-", "1">>, <<"1">> >>),
      Line(<<W_trip, <<"1">> >>) }

\* 0x11 and 0x88, the messages that store a value; the byte of their fields.
ControlsT == {17, 136}
PayloadT == {1}

NextTime ==
    \/ Start(StartMenuRT, 1)
    \/ Start2(MenuT, MaxLinesT + 1)
    \/ ReadLine(MenuT, MaxLinesT + 1)
    \/ ExecCommand
    \/ RunLoop
    \/ RunReturn
    \/ DrainPoll
    \/ FieldByte
    \/ Gate
    \/ Tick(MaxClockT)
    \/ EnvSend(ControlsT, PayloadT, MaxSentT, MaxQueueT)

SpecTime == Init /\ [][NextTime]_vars

\* ================================================================= claims
\* The step is one pass through the body of the command loop.
ExecStep == hist'.nexec = hist.nexec + 1
\* The step is one advance of the simulation by update() / update_sim().
AdvanceStep == stats'.n_adv = stats.n_adv + 1
\* The step reads the fourth byte of the field of a 0x88 message.
DirectionStep ==
    /\ pc = "field"
    /\ proto.control = 136
    /\ Len(proto.fld) = 3
    /\ Len(proto'.fld) = 4

C2_AdvancesDelayApart ==
    [][(serial_on /\ AdvanceStep) => now - run.ref_wall >= DELAY]_vars

\* C3: without the serial link every advance of run_until is one step with
\* exactly one row, which holds the state before the advance; the rows
\* written are those of the advances and of the anneals.
C3_RowBeforeEachAdvance ==
    [][/\ (~serial_on /\ AdvanceStep) =>
              /\ out'.n = out.n + 1
              /\ out'.last = Row(sim)
              /\ sim'.sim_time = sim.sim_time + DELTA_T
       /\ ~serial_on' => out'.n = stats'.n_adv + stats'.n_annl_rows]_vars

\* C3 witness: two advances, each with its row, within the same wall-clock
\* second as the entry of run_until.
C3_Witness ==
    /\ ~serial_on
    /\ stats.n_adv >= 2
    /\ out.n >= 2
    /\ pc = "run"
    /\ now = run.old_time

\* The target of the run_until call is a whole number of steps from the
\* simulated time at its entry.
WholeSteps == (run.new_time2 - 2 * run.entry_time) % (2 * DELTA_T) = 0

\* C4 (as stated): during and at the end of a run_until call whose target is
\* a whole number of steps away, the simulated time is never beyond the
\* later of the entry time and the target, and the call returns with the
\* simulated time equal to a target that was ahead.
C4_RunUntilStopsAtTarget ==
    (pc = "run" /\ WholeSteps) =>
        /\ 2 * sim.sim_time <=
              (IF 2 * run.entry_time > run.new_time2
               THEN 2 * run.entry_time ELSE run.new_time2)
        /\ (~LoopCond(variant, sim.sim_time, run.new_time2)
            /\ 2 * run.entry_time < run.new_time2)
              => 2 * sim.sim_time = run.new_time2

\* C5 (as stated): without the serial link, when the script has ended and its
\* last command was an accepted `time T` with T beyond the simulated time
\* at which it was issued, the last row of the log has the time T.
C5_LastRowAtTarget ==
    (/\ pc = "done"
     /\ ~serial_on
     /\ hist.last_op = W_time
     /\ diag = NoDiag
     /\ run.cont = "time"
     /\ WholeSteps
     /\ run.new_time2 > 2 * run.entry_time)
        => 2 * out.last.time = run.new_time2

\* C6 (as stated): reading a script always comes to its end: the reader has
\* finished, or its next step makes progress.
C6_ReadingTerminates == pc = "finished" \/ ENABLED <<NextLex>>_vars

\* C7: in old_sim.c an init command executed when an initializer block has
\* been completed prints the error, makes main return 1, and nothing is
\* executed after that.
C7_SecondBlockIsFatal ==
    [][/\ pc # "abort"
       /\ (ExecStep /\ variant = "old" /\ Op = W_init /\ did_init) =>
              /\ diag' = FatalDiag
              /\ exit_status' = 1
              /\ pc' = "abort"]_vars

\* C7 witness: the run was aborted by an init after a completed block.
C7_Witness ==
    /\ pc = "abort"
    /\ exit_status = 1
    /\ diag = FatalDiag
    /\ did_init
    /\ hist.last_op = W_init

\* The command about to be executed by old_sim.c is an init that follows an
\* init directly.
InitAfterInit ==
    /\ variant = "old"
    /\ hist.nexec >= 1
    /\ hist.last_op = W_init
    /\ Op = W_init

\* C8 (as stated): an init directly after an init aborts the run.
C8_InitInitIsFatal ==
    [][(ExecStep /\ InitAfterInit) => pc' = "abort"]_vars

\* C8 (amended): an init directly after an init is reported as an invalid
\* command naming init; the block stays open, nothing else changes and the
\* run goes on with the next line.
C8_InitInitIsInvalid ==
    [][(ExecStep /\ InitAfterInit) =>
          /\ diag' = [kind |-> "invalid", tok |-> W_init]
          /\ pc' = "next"
          /\ in_init' /\ ~did_init'
          /\ exit_status' = -1
          /\ sim' = sim]_vars

\* C8 witness: the second of two init commands that opened the script was
\* rejected, and the run goes on.
C8_Witness ==
    /\ variant = "old"
    /\ hist.nexec = 2
    /\ hist.last_op = W_init
    /\ in_init
    /\ diag = [kind |-> "invalid", tok |-> W_init]
    /\ pc = "next"

InitOnly == {W_rand, W_mfld, W_sdst, W_temp}

\* C9: in old_sim.c rand, mfld, sdst and temp executed while no initializer
\* block is open print the invalid-command diagnostic naming the command and
\* change neither the simulation globals nor in_init and did_init.
C9_InitOnlyRejectedOutside ==
    [][(ExecStep /\ variant = "old" /\ Op \in InitOnly /\ ~in_init) =>
          /\ diag' = [kind |-> "invalid", tok |-> Op]
          /\ sim' = sim
          /\ in_init' = in_init
          /\ did_init' = did_init
          /\ pc' = "next"]_vars

\* C9 witness: an mfld outside an initializer block has been rejected after
\* a block was completed.
C9_Witness ==
    /\ variant = "old"
    /\ diag = [kind |-> "invalid", tok |-> W_mfld]
    /\ hist.last_op = W_mfld
    /\ ~in_init
    /\ did_init

\* C10 (as stated): in old_sim.c time and trip executed while an initializer
\* block is open are rejected as invalid commands and leave sim_time, dose,
\* dose_rate, steady_state and max_pol_rate as they were.
C10_NoTimeOrTripInInit ==
    [][(ExecStep /\ variant = "old" /\ in_init /\ Op \in {W_time, W_trip}) =>
          /\ diag' = [kind |-> "invalid", tok |-> Op]
          /\ pc' = "next"
          /\ sim'.sim_time = sim.sim_time
          /\ sim'.dose = sim.dose
          /\ sim'.dose_rate = sim.dose_rate
          /\ sim'.steady_state = sim.steady_state
          /\ sim'.max_pol_rate = sim.max_pol_rate]_vars

\* The commands that run the simulation or switch the beam.
RunCommands == {W_time, W_trip, W_beam, W_annl}

\* C11 (as stated): in old_sim.c an init executed directly after a time, trip,
\* beam or annl command that was carried out does not open an initializer
\* block.
C11_NoInitAfterRun ==
    [][(/\ ExecStep
        /\ variant = "old"
        /\ Op = W_init
        /\ hist.last_op \in RunCommands
        /\ diag = NoDiag) => ~(~in_init /\ in_init')]_vars

\* The line just read consists of its opcode alone.
NoArgument == lex.cmd = 0

\* C12 (as stated): a line `freq` without an argument is reported as an error
\* and leaves the frequency as it was, whatever was executed before it.
C12_FreqWithoutArgument ==
    [][(ExecStep /\ Op = W_freq /\ NoArgument) =>
          /\ diag'.kind # "none"
          /\ sim'.freq = sim.freq]_vars

RECURSIVE TextLines(_, _)
\* The lines of a script file: the text between its newlines, cur being the
\* line collected so far.
TextLines(f, cur) ==
    IF f = << >> THEN (IF cur = << >> THEN << >> ELSE <<cur>>)
    ELSE IF Head(f) = NL THEN <<cur>> \o TextLines(Tail(f), << >>)
    ELSE TextLines(Tail(f), Append(cur, Head(f)))

RECURSIVE HoldsCommand(_)
\* The line holds a command: its first character that is no blank is not the
\* `#` of a comment line.
HoldsCommand(l) ==
    IF l = << >> THEN FALSE
    ELSE IF Head(l) \in {SP, TAB, CR} THEN HoldsCommand(Tail(l))
    ELSE Head(l) # HASH

\* The number of lines of the file that hold a command.
CommandLines(f) ==
    LET ls == TextLines(f, << >>)
    IN  Cardinality({i \in 1 .. Len(ls) : HoldsCommand(ls[i])})

\* C13 (as stated): when the script has been read to its end, the command
\* loop has been given exactly one command for each line of the file that
\* holds one; the text after a `#` that follows a command is no command.
C13_OneCommandPerLine == pc = "finished" => nlines = CommandLines(lex.file)

\* The opcodes of the run file (the header of old_sim.c and of sim.c).
Opcodes ==
    {W_init, W_done, W_mfld, W_sdst, W_temp, W_freq, W_time, W_beam, W_trip,
     W_annl, W_rand, W_fllw}

\* The line about to be executed has an opcode that is not one of the run
\* file, or one that is not legal in the state of the interpreter: an
\* init-only command or done outside the initializer block, init, time or
\* trip inside it.
IllegalLine ==
    \/ Op \notin Opcodes
    \/ Op \in InitOnly \cup {W_done} /\ ~in_init
    \/ Op \in {W_init, W_time, W_trip} /\ in_init

\* C14 (as stated): in both variants a line that is unrecognized or not legal
\* in the current state prints a diagnostic naming its opcode, changes no
\* simulation state, and the loop goes on to the next line.
C14_IllegalLinesReported ==
    [][(ExecStep /\ IllegalLine) =>
          /\ diag' = [kind |-> "invalid", tok |-> Op]
          /\ sim' = sim
          /\ pc' = "next"]_vars

\* The argument of the line about to be executed is a number, and the target
\* the script asks for: relative to the simulated time when the argument
\* starts with `+`, absolute otherwise.
TimeArgument == ParseLf(Arg(0), CMD_BUFLEN)
AskedTarget ==
    IF Head(Arg(0)) = "+" THEN sim.sim_time + TimeArgument.val
    ELSE TimeArgument.val

\* C15 (as stated): in both variants `time <v>` calls run_until with the
\* target v, `time +<v>` with the target sim_time + v.
C15_TimeTargets ==
    [][(ExecStep /\ Op = W_time /\ ~NoArgument /\ TimeArgument.ok /\ ~in_init)
          => /\ pc' = "run"
             /\ run'.new_time2 = 2 * AskedTarget]_vars

\* C16: a value written by serial_tx_int32 and read back by serial_rx_int32
\* from the same four bytes in the same order is the value written, and so
\* is the bit pattern of a float through serial_tx_float and
\* serial_rx_float, on either host.
C16_RoundTrip ==
    codec.st = "got" =>
        /\ codec.kind = "int" => codec.gi = codec.xi
        /\ codec.kind = "float" => codec.gf = codec.xf

\* C16 witness: a negative integer whose four bytes all differ has made the
\* round trip on a little-endian host.
C16_Witness ==
    /\ codec.st = "got"
    /\ codec.kind = "int"
    /\ codec.host = "little"
    /\ codec.wire = <<128, 1, 0, 255>>
    /\ codec.gi = codec.xi
    /\ codec.xi < 0

\* The four bytes of the 32-bit integer v from the most significant to the
\* least significant.
MSBFirst(v) ==
    LET u == IF v < 0 THEN v + 2147483647 + 1 ELSE v
        hi == (u \div 16777216) + (IF v < 0 THEN 128 ELSE 0)
    IN  <<hi, (u \div 65536) % 256, (u \div 256) % 256, u % 256>>

\* C17 (as stated): on either host the bytes on the link are those of the
\* value from the most significant to the least significant, and the
\* reader takes the first byte received as the most significant.
C17_MostSignificantFirst ==
    codec.st # "idle" =>
        /\ codec.kind = "int" =>
              /\ codec.wire = MSBFirst(codec.xi)
              /\ MSBFirst(serial_rx_int32(codec.host, codec.wire)) = codec.wire
        /\ codec.kind = "float" =>
              /\ codec.wire = codec.xf
              /\ serial_rx_float(codec.host, codec.wire) = codec.wire

\* ------------------------------------------------------------------ C18
\* The step of process_command that reads the control byte c and dispatches
\* it, and the step that reads one more byte of a field or of a string.
Dispatched(c) ==
    /\ pc = "drain"
    /\ rxq # << >>
    /\ Head(rxq) = c
    /\ rxq' = Tail(rxq)

ReadsOneMore(where) ==
    /\ pc = where
    /\ rxq # << >>
    /\ rxq' = Tail(rxq)

\* The 32-bit integer whose bytes, most significant first, are b.
WireInt32(b) ==
    LET top == IF b[1] >= 128 THEN b[1] - 256 ELSE b[1]
    IN  ((top * 256 + b[2]) * 256 + b[3]) * 256 + b[4]

\* 0x11, 0x88, 0xBB: nothing is written; exactly four more bytes are read,
\* and with the fourth the value is stored in the one variable of the
\* control byte (the frequency in MHz, which is the integer/1000 in GHz).
FieldExchange ==
    /\ \A c \in {17, 136, 187} :
           Dispatched(c) =>
               /\ pc' = "field"
               /\ proto'.fld = << >>
               /\ proto'.tx = << >>
               /\ sim' = sim
    /\ ReadsOneMore("field") /\ Len(proto.fld) < 3 =>
           /\ pc' = "field"
           /\ proto'.tx = proto.tx
           /\ sim' = sim
    /\ ReadsOneMore("field") /\ Len(proto.fld) = 3 =>
           LET v == WireInt32(Append(proto.fld, Head(rxq)))
           IN  /\ pc' = "drain"
               /\ proto'.tx = proto.tx
               /\ proto.control = 17 => sim' = [sim EXCEPT !.freq = v]
               /\ proto.control = 136 => sim' = [sim EXCEPT !.direction = v]
               /\ proto.control = 187 => sim' = [sim EXCEPT !.pol_rate = v]

\* 0x33, 0x77, 0xFF: no further byte is read, the state of the simulation
\* is unchanged, and the answer is 0xBE 0xEF, the four bytes of the event
\* number, the four bytes of the polarization.
AnswerExchange ==
    \A c \in {51, 119, 255} :
        Dispatched(c) =>
            /\ pc' = "drain"
            /\ sim' = sim
            /\ c = 51 => proto'.tx = <<190, 239>>
            /\ c = 119 => proto'.tx = MSBFirst(now)
            /\ c = 255 => proto'.tx = PolBytes /\ Len(proto'.tx) = 4

\* A control byte is ignored: no further byte is read, nothing is written,
\* the state of the simulation is unchanged.
Ignored(c) ==
    Dispatched(c) =>
        /\ pc' = "drain"
        /\ proto'.tx = << >>
        /\ sim' = sim

\* 0xEE in sim.c: nothing is written and the state of the simulation is
\* unchanged while the bytes up to and including a zero byte are read.
StringExchange ==
    /\ Dispatched(238) /\ variant = "new" =>
           /\ pc' = "string"
           /\ proto'.tx = << >>
           /\ sim' = sim
    /\ ReadsOneMore("string") =>
           /\ pc' = IF Head(rxq) = 0 THEN "drain" ELSE "string"
           /\ proto'.tx = proto.tx
           /\ sim' = sim

PollStep == pc = "drain" /\ (pc' # pc \/ proto' # proto)

\* The non-blocking read yields no byte, or a zero byte.
NothingToDispatch == rxq = << >> \/ Head(rxq) = 0

\* C19: process_command returns only from its non-blocking read, at the
\* first one that yields no byte or a zero byte; a read that yields a
\* non-zero byte dispatches it, the oldest byte of the link, and the loop
\* goes on; a return for want of a byte leaves nothing behind.
C19_DrainsInArrivalOrder ==
    [][ /\ pc \in {"drain", "field", "string"} /\ pc' = "gate" =>
               pc = "drain" /\ NothingToDispatch
        /\ PollStep /\ NothingToDispatch => pc' = "gate"
        /\ PollStep /\ ~NothingToDispatch =>
               /\ pc' \in {"drain", "field", "string"}
               /\ proto'.control = Head(rxq)
               /\ proto'.n = proto.n + 1
               /\ rxq' = Tail(rxq)
        /\ PollStep /\ rxq = << >> => rxq' = << >> ]_vars

\* One call of old_sim.c's process_command has dispatched two messages,
\* 0x33 and then 0x77, which is all the controller has sent.
C19_Witness ==
    /\ variant = "old"
    /\ pc = "drain"
    /\ proto.n = 2
    /\ proto.control = 119
    /\ Len(proto.tx) = 4
    /\ box.sent = 2
    /\ rxq = << >>

\* ------------------------------------------------------------------ C20
\* C20: the dose never decreases; a step of the simulation adds
\* dose_rate * DELTA_T to it, which is nothing while the beam is off and
\* MAX_DOSE_RATE * DELTA_T while it is on; no other step changes it.
C20_DoseFollowsBeam ==
    [][ /\ sim'.dose >= sim.dose
        /\ AdvanceStep => sim'.dose = sim.dose + sim.dose_rate * DELTA_T
        /\ AdvanceStep /\ sim.dose_rate = 0 => sim'.dose = sim.dose
        /\ AdvanceStep /\ sim.dose_rate # 0 =>
               sim'.dose = sim.dose + MAX_DOSE_RATE * DELTA_T
        /\ ~AdvanceStep => sim'.dose = sim.dose ]_vars

\* old_sim.c at the end of `beam on`, `time +2`, `beam off`, `time +2`: the
\* dose is that of the two steps with the beam, and the last row, written
\* before the fourth step, shows it.
C20_Witness ==
    /\ variant = "old"
    /\ pc = "done"
    /\ hist.nexec = 4
    /\ hist.last_op = W_time
    /\ sim.sim_time = 4 * DELTA_T
    /\ sim.dose_rate = 0
    /\ sim.dose = 2 * MAX_DOSE_RATE * DELTA_T
    /\ out.n = 4
    /\ out.last.time = 3 * DELTA_T
    /\ out.last.dose = 2 * MAX_DOSE_RATE * DELTA_T

\* ------------------------------------------------------------------ C21
\* C21 (as stated): after every command and every step of the simulation
\* the steady state is at most max_steady_state.
C21_SteadyStateBounded == sim.steady_state <= sim.max_steady_state

\* ------------------------------------------------------------------ C22
\* C22: no step lowers sim_time, and the steps of process_command leave it
\* as it is.
C22_TimeNeverDecreases ==
    [][ /\ sim'.sim_time >= sim.sim_time
        /\ pc \in {"drain", "field", "string"} =>
               sim'.sim_time = sim.sim_time ]_vars

\* old_sim.c with the serial link has run `time 1` and then `time 0`, which
\* asks for a time in the past, and has read a frequency from the
\* controller: the simulated time is still 1.
C22_Witness ==
    /\ variant = "old"
    /\ serial_on
    /\ pc = "next"
    /\ hist.nexec = 2
    /\ hist.last_op = W_time
    /\ hist.pre.sim_time = 1
    /\ run.new_time2 = 0
    /\ sim.sim_time = 1
    /\ proto.control = 17
    /\ Len(proto.fld) = 4

\* ------------------------------------------------------------------ C23
\* The step is the whole of an `annl` command of old_sim.c, that is one call
\* of anneal.
AnnealStep == ExecStep /\ variant = "old" /\ Op = W_annl

\* C23 (as stated): an anneal adds exactly 1 to n_anneals, and nothing else
\* changes it.
C23_AnnealsCounted ==
    [][ /\ AnnealStep => sim'.n_anneals = sim.n_anneals + 1
        /\ ~AnnealStep => sim'.n_anneals = sim.n_anneals ]_vars

\* ------------------------------------------------------------------ C24
\* C24: when anneal returns, last_anneal_dose is the dose, the dose is what
\* it was, and the polarization is what it was before the anneal; the rows
\* written during the anneal show the polarization 0.
C24_AnnealKeepsDoseAndPol ==
    [][ AnnealStep =>
            /\ sim'.last_anneal_dose = sim'.dose
            /\ sim'.dose = sim.dose
            /\ sim'.pol = sim.pol
            /\ out'.n > out.n => out'.last.pol = 0 ]_vars

\* old_sim.c after `beam on`, `time +2`, `annl 1 1`: the anneal began with a
\* dose and a polarization that two steps with the beam had made.
C24_Witness ==
    /\ variant = "old"
    /\ pc = "next"
    /\ hist.nexec = 3
    /\ hist.last_op = W_annl
    /\ hist.pre.pol = 2
    /\ hist.pre.last_anneal_dose = 0
    /\ sim.pol = 2
    /\ sim.dose = 2 * MAX_DOSE_RATE * DELTA_T
    /\ sim.last_anneal_dose = sim.dose
    /\ sim.sim_time = 3 * DELTA_T
    /\ out.last.pol = 0

\* ------------------------------------------------------------------ C25
\* The step is the return of the second run_until of a trip command, which
\* completes the trip.
TripEnd == pc = "run" /\ run.cont = "trip_end" /\ pc' = "next"

\* C25 (as stated): a completed trip leaves steady_state and max_pol_rate as
\* they were before the trip command.
C25_TripRestoresSteadyState ==
    [][ TripEnd =>
            /\ sim'.steady_state = hist.pre.steady_state
            /\ sim'.max_pol_rate = hist.pre.max_pol_rate ]_vars

\* ------------------------------------------------------------------ C26
\* The globals that a trip is to leave alone are the same in s and t.
SameParameters(s, t) ==
    /\ t.dose_rate = s.dose_rate
    /\ t.field = s.field
    /\ t.temp = s.temp
    /\ t.freq = s.freq
    /\ t.max_steady_state = s.max_steady_state
    /\ t.last_anneal_dose = s.last_anneal_dose
    /\ t.randomness_on = s.randomness_on
    /\ t.follow_freq = s.follow_freq
    /\ t.tripping = s.tripping
    /\ t.n_anneals = s.n_anneals

\* C26 (as stated): a completed trip leaves the beam, the field, the
\* temperature, max_steady_state, last_anneal_dose and the flags as they
\* were before the trip command, with the beam on or off before it.
C26_TripFrame == [][TripEnd => SameParameters(hist.pre, sim')]_vars

\* ------------------------------------------------------------------ C27
\* C27 (as stated): a completed trip of in_time > 0 seconds has advanced
\* sim_time by in_time and the dose by MAX_DOSE_RATE * in_time / 2.
C27_TripAdvance ==
    [][ TripEnd /\ run.in_time > 0 =>
            /\ sim'.sim_time = hist.pre.sim_time + run.in_time
            /\ 2 * (sim'.dose - hist.pre.dose) = MAX_DOSE_RATE * run.in_time ]_vars

\* ------------------------------------------------------------------ C28
\* C28 (as stated): whenever sim.c computes the polarization, a_param is the
\* one computed for the current frequency, whether the frequency came from a
\* `freq` command or from the controller.
C28_AParamFollowsFreq ==
    [][variant = "new" /\ AdvanceStep => sim.a_freq = sim.freq]_vars

\* ------------------------------------------------------------------ C29
\* The text script_readline has read in the call it has just returned from.
TextRead == SubSeq(lex.file, lex.start + 1, lex.fpos)

RECURSIVE Words(_, _, _)
\* The tokens of the text s: its maximal runs of characters that are
\* neither blanks, tabs nor line ends.
Words(s, cur, acc) ==
    LET closed == IF cur = << >> THEN acc ELSE Append(acc, cur)
    IN  IF s = << >> THEN closed
        ELSE IF Head(s) \in {SP, TAB, NL, CR} THEN Words(Tail(s), << >>, closed)
        ELSE Words(Tail(s), Append(cur, Head(s)), acc)

\* script_readline has returned a line without a comment.
LineReturned ==
    /\ pc = "reading"
    /\ lex.st = "ret"
    /\ lex.read > 0
    /\ \A i \in 1 .. Len(TextRead) : TextRead[i] # HASH

\* commands[0] is the opcode and commands[n + 1] the n-th argument of the
\* line read, and the rows after the last token hold the empty string.
TokensAsWritten ==
    LET w == Words(TextRead, << >>, << >>)
    IN  \A n \in 0 .. MAX_CMDS - 1 :
            CStr(lex.buf[n]) = IF n < Len(w) THEN w[n + 1] ELSE << >>

\* C29 (as stated): on the first line of a script, whose tokens are
\* separated by runs of one or more blanks, the opcode and the arguments are
\* the tokens of the line in their order, and blanks at the end add none.
C29_BlankRunsSeparate == LineReturned /\ nlines = 0 => TokensAsWritten

\* ------------------------------------------------------------------ C30
\* No blank of the text read is followed by another blank.
SingleBlanks ==
    \A i \in 1 .. Len(TextRead) - 1 :
        ~(TextRead[i] \in {SP, TAB} /\ TextRead[i + 1] \in {SP, TAB})

\* C30 (as stated): after every return of script_readline, for a line whose
\* tokens are separated by single blanks, the arguments are those of the
\* line just read, and script_getarg(n) is empty from the number of its
\* arguments on: nothing of an earlier line is visible.
C30_NoStaleArguments == LineReturned /\ SingleBlanks => TokensAsWritten

\* ------------------------------------------------------------------ C31
\* C31 (as stated): script_readline never writes to a row of commands
\* outside 0 .. MAX_CMDS - 1, and the position it writes at stays within
\* 0 .. CMD_BUFLEN - 1.
C31_IndicesInBounds ==
    /\ ~lex.oob
    /\ lex.pos \in 0 .. CMD_BUFLEN - 1

\* ------------------------------------------------------------------ C32
\* A step that moves simulated time.
TimeStep == sim'.sim_time # sim.sim_time

\* C32 (as stated): with the serial link on, simulated time is never more
\* than one DELTA_T ahead of one DELTA_T per DELAY seconds of wall clock
\* since the start of the program, and every step that moves simulated
\* time, that of annl included, is one DELTA_T made by the gated update of
\* run_until, which follows a drain of the protocol session.
C32_PacedAndDrained ==
    /\ [](serial_on => sim.sim_time * DELAY <= (now + DELAY) * DELTA_T)
    /\ [][(serial_on /\ TimeStep) =>
              /\ AdvanceStep
              /\ sim'.sim_time = sim.sim_time + DELTA_T]_vars

\* ------------------------------------------------------------------ C33
\* C33: in_init and did_init are never both true; did_init, once true, stays
\* true; an initializer block is opened (in_init rises) only when none is
\* open and none has been completed, and closed (in_init falls) only by the
\* step that sets did_init, which is set by no other step.  Hence a run
\* opens at most one block and closes at most one.
C33_OneInitializerBlock ==
    /\ [](~(in_init /\ did_init))
    /\ [][/\ did_init => did_init'
          /\ (~in_init /\ in_init') => ~did_init
          /\ (in_init /\ ~in_init') => did_init'
          /\ (~did_init /\ did_init') => in_init]_vars

\* C33 witness: a block was opened and closed, and the done that followed
\* was rejected with the flags as they were.
C33_Witness ==
    /\ variant = "old"
    /\ hist.nexec = 3
    /\ hist.last_op = W_done
    /\ diag = [kind |-> "invalid", tok |-> W_done]
    /\ did_init
    /\ ~in_init
    /\ pc = "next"
=============================================================================
